---- MODULE Spec2Model ----
(***************************************************************************)
(* State-machine model of the metro emulator's data manager                *)
(* (Metro_emulator-main/src/metroEmuUI/dataMgr.py): the message codec,     *)
(* the request dispatcher, the state cache, the sensor priority resolver   *)
(* and the power-link interlock with its two ingestion paths.              *)
(*                                                                         *)
(* Wire messages are sequences of tokens.  A token is a run of characters  *)
(* holding no ';' and no whitespace, or one of the three special tokens    *)
(* ";" (the delimiter), " " (whitespace) and "0xFF" (a byte that is not    *)
(* valid UTF-8).  JSON texts are token sequences too: "{", "}", keys and   *)
(* scalar values, with JSON's ':' and ',' left implicit.                   *)
(***************************************************************************)
EXTENDS Integers, Sequences, FiniteSets, TLC

\* ------------------------------------------------------------------ bounds
MaxTrains == 2
MaxPolls == 5
MaxPush == 3
MaxTime == 2
MaxOnes == 2
MaxLen == 4

MaxRounds == 2

\* gv.gPlcTimeout, in ticks of the clock.
gPlcTimeout == 1

\* ------------------------------------------------------- lines and trains
\* The four line ids, in the order every loop of the code visits them.
LineOrder == <<"weline", "nsline", "ccline", "mtline">>

LineIDs == {LineOrder[i] : i \in 1..Len(LineOrder)}

\* The topology the engine is built with: the number of trains on each line.
TrainsOnLine == [weline |-> MaxTrains, nsline |-> 1, ccline |-> MaxTrains, mtline |-> 0]

AllTrains == {<<l, i>> : l \in LineIDs, i \in 1..MaxTrains} \cap
             {t \in LineIDs \X (1..MaxTrains) : t[2] <= TrainsOnLine[t[1]]}

\* ------------------------------------------------------------ JSON values
JNull == [kind |-> "null", num |-> 0, str |-> "", items |-> <<>>]

JNum(n) == [kind |-> "num", num |-> n, str |-> "", items |-> <<>>]

JStr(s) == [kind |-> "str", num |-> 0, str |-> s, items |-> <<>>]

JList(s) == [kind |-> "list", num |-> 0, str |-> "", items |-> s]

\* Python's truth value of a decoded JSON value: bool(v).
Truthy(v) ==
    CASE v.kind = "null" -> FALSE
      [] v.kind = "num" -> v.num # 0
      [] v.kind = "str" -> v.str # ""
      [] OTHER -> v.items # <<>>

\* The empty JSON object; an object is a function from its keys to values.
EmptyObj == [k \in {} |-> JNull]

ResultObj(r) == [k \in {"result"} |-> JStr(r)]

\* ----------------------------------------------------------------- tokens
WS == " "

Delim == ";"

BadByte == "0xFF"

JsonKeys == LineIDs \cup {"railway", "other"}

JsonValToks == {"null", "0", "1"}

TokVal(t) == IF t = "null" THEN JNull ELSE IF t = "0" THEN JNum(0) ELSE JNum(1)

\* json.dumps({}): the text "{}".
EmptyObjText == <<"{", "}">>

\* ------------------------------------------------------------------ codec
RECURSIVE lstrip(_)
lstrip(s) == IF s # <<>> /\ Head(s) = WS THEN lstrip(Tail(s)) ELSE s

RECURSIVE rstrip(_)
rstrip(s) == IF s # <<>> /\ s[Len(s)] = WS THEN rstrip(SubSeq(s, 1, Len(s) - 1)) ELSE s

\* str.strip()
strip(s) == rstrip(lstrip(s))

MinOf(S) == CHOOSE x \in S : \A y \in S : x <= y

\* bytes.decode('UTF-8') succeeds unless the buffer holds an invalid byte.
Decodable(msg) == \A i \in 1..Len(msg) : msg[i] # BadByte

\* req.split(';', 2): at most three parts, cut at the first two delimiters.
split2(s) ==
    LET P == {i \in 1..Len(s) : s[i] = Delim} IN
    IF P = {} THEN <<s>>
    ELSE LET p1 == MinOf(P)
             P2 == P \ {p1}
         IN  IF P2 = {} THEN <<SubSeq(s, 1, p1 - 1), SubSeq(s, p1 + 1, Len(s))>>
             ELSE LET p2 == MinOf(P2)
                  IN  <<SubSeq(s, 1, p1 - 1), SubSeq(s, p1 + 1, p2 - 1),
                        SubSeq(s, p2 + 1, Len(s))>>

\* parseIncomeMsg(msg).  The decode of line 30 is outside the try block, so
\* an undecodable buffer raises out of the function.
parseIncomeMsg(msg) ==
    IF ~Decodable(msg)
    THEN [raised |-> TRUE, key |-> <<>>, type |-> <<>>, body |-> <<>>]
    ELSE LET parts == split2(msg) IN
         IF Len(parts) = 3
         THEN [raised |-> FALSE, key |-> strip(parts[1]), type |-> strip(parts[2]),
               body |-> parts[3]]
         ELSE [raised |-> FALSE, key |-> <<>>, type |-> <<>>, body |-> EmptyObjText]

\* json.loads(text): whitespace between tokens is ignored; an object is
\* "{" key value key value ... "}", a later duplicate key winning; the
\* scalars and the empty list decode to non-objects; anything else raises.
jsonLoads(text) ==
    LET t == SelectSeq(text, LAMBDA x : x # WS)
        n == Len(t)
        inner == IF n >= 2 THEN SubSeq(t, 2, n - 1) ELSE <<>>
        m == Len(inner)
        isObj == /\ n >= 2
                 /\ t[1] = "{"
                 /\ t[n] = "}"
                 /\ m % 2 = 0
                 /\ \A i \in 1..m : IF i % 2 = 1 THEN inner[i] \in JsonKeys
                                    ELSE inner[i] \in JsonValToks
        keys == {inner[i] : i \in {j \in 1..m : j % 2 = 1}}
        lastAt(k) == CHOOSE i \in 1..m :
                        /\ i % 2 = 1
                        /\ inner[i] = k
                        /\ \A j \in (i + 1)..m : ~(j % 2 = 1 /\ inner[j] = k)
    IN  IF isObj
        THEN [ok |-> TRUE, isObj |-> TRUE,
              obj |-> [k \in keys |-> TokVal(inner[lastAt(k) + 1])]]
        ELSE IF n = 1 /\ t[1] \in JsonValToks \cup {"[]"}
        THEN [ok |-> TRUE, isObj |-> FALSE, obj |-> EmptyObj]
        ELSE [ok |-> FALSE, isObj |-> FALSE, obj |-> EmptyObj]

\* --------------------------------------------------------------- variables
VARIABLES
    iMapMgr,        \* gv.iMapMgr is set: the simulation engine is available
    gTestMD,        \* gv.gTestMD
    gJuncAvoid,     \* gv.gJuncAvoid
    engine,         \* the engine's live state: sensors, stations, power, info
    engFault,       \* the line whose engine agents raise, or "none"
    emgStop,        \* every train's emergency-stop flag, per line
    broken,         \* the trains whose setEmgStop raises
    sensorsDict, stationsDict, trainsDict, trainsRtuDict,
    sensorPlcUpdateT, stationPlcUpdateT, trainPlcUpdateT, trainRtuUpdateT,
    now,            \* time.time()
    last_powerlink_railway,  \* "None", "True" or "False"
    seen_true, false_count,  \* PowerLinkWatcher's debounce state
    pc,             \* per thread: "idle", "fanout" (inside the fan-out loop), "returned"
    fan,            \* per thread: the _applyRailwayPowerLink call in progress
    req,            \* the datagram the dispatcher handled last
    resp,           \* what msgHandler gave back for it
    calls,          \* the engine setters that request invoked
    polled,         \* history: the readings the watcher decoded
    pollStops,      \* history: the watcher's calls of _set_all_trains_power
    pushed,         \* history: the POST/powerLink requests handled
    applied,        \* history: whether each of them invoked the fan-out
    terminate,      \* self.terminate
    totalsSender,   \* MetroTotalsSender: started?, its last batch, its sends
    totalsLogger    \* _logMetroTotalsLoop: position, its last batch, its logs

cfgVars == <<gTestMD, gJuncAvoid>>

engVars == <<engine, engFault, broken>>

tableVars == <<sensorsDict, stationsDict, trainsDict, trainsRtuDict>>

stampVars == <<sensorPlcUpdateT, stationPlcUpdateT, trainPlcUpdateT, trainRtuUpdateT>>

watchVars == <<seen_true, false_count>>

histVars == <<polled, pollStops, pushed, applied>>

workerVars == <<terminate, totalsSender, totalsLogger>>

vars == <<iMapMgr, cfgVars, engVars, emgStop, tableVars, stampVars, now,
          last_powerlink_railway, watchVars, pc, fan, req, resp, calls, histVars,
          workerVars>>

Threads == {"disp", "watch"}

\* ----------------------------------------------------------------- engine
\* The engine's state in one of its configurations: w varies the readings.
PowerOf(w, l) == [i \in 1..TrainsOnLine[l] |-> (i + w) % 3]

InfoOf(w, l) ==
    [i \in 1..TrainsOnLine[l] |->
        [fsensor |-> (i + w) % 2, speed |-> w, voltage |-> 10 * i, current |-> i + w]]

EngineWorld(w) ==
    [sensors  |-> [weline |-> <<w % 2, 1, 0>>, nsline |-> <<1, 0, w % 2>>,
                   ccline |-> <<1, 1, 1 - (w % 2)>>, mtline |-> <<>>],
     stations |-> [weline |-> <<w % 2 = 0, TRUE>>, nsline |-> <<FALSE>>,
                   ccline |-> <<w % 2 = 1>>, mtline |-> <<>>],
     power    |-> [l \in LineIDs |-> PowerOf(w, l)],
     info     |-> [l \in LineIDs |-> InfoOf(w, l)]]

EngineWorlds == {EngineWorld(w) : w \in {1, 2}}

\* ------------------------------------------------------------ state cache
\* __init__, lines 54-95: every table holds the four keys, each None.
EmptyTable == [l \in LineIDs |-> JNull]

\* ccline has the lowest priority (lines 61-68); slot i governs index i.
NoRule == [line |-> "", idxs |-> <<>>]

Rule(l, idxs) == [line |-> l, idxs |-> idxs]

priorityConfig ==
    << Rule("nsline", <<0>>), NoRule, Rule("nsline", <<4>>), NoRule,
       Rule("nsline", <<2>>), NoRule, Rule("nsline", <<2>>), NoRule,
       Rule("weline", <<7, 9>>), NoRule, Rule("weline", <<5, 11>>), NoRule,
       Rule("weline", <<3, 13>>), NoRule, Rule("weline", <<1, 15>>), NoRule >>

\* A flag that reads only the last index the rule lists.
overWriteFlgLastOnly(flg, idxs, p, other) ==
    IF idxs = <<>> THEN flg
    ELSE LET j == idxs[Len(idxs)]
         IN  IF j < Len(other) THEN other[j + 1] # 0 ELSE flg

\* The inner loop of lines 353-355 over the rule's indices, from position p:
\* the flag is or-ed with every listed element that is in range.
RECURSIVE overWriteFlg(_, _, _, _)
overWriteFlg(flg, idxs, p, other) ==
    IF p > Len(idxs) THEN flg
    ELSE LET j == idxs[p]
         IN  overWriteFlg(IF j < Len(other) THEN flg \/ (other[j + 1] # 0) ELSE flg,
                          idxs, p + 1, other)

\* _updateSensorPriority's loop over the ccline array, from index i (0-based).
RECURSIVE priorityLoop(_, _, _)
priorityLoop(cc, i, tbl) ==
    IF i >= Len(cc) THEN cc
    ELSE IF i < Len(priorityConfig) /\ priorityConfig[i + 1] # NoRule
    THEN LET r == priorityConfig[i + 1]
             flg == overWriteFlg(FALSE, r.idxs, 1, tbl[r.line].items)
         IN  priorityLoop(IF cc[i + 1] # 0 /\ flg THEN [cc EXCEPT ![i + 1] = 0] ELSE cc,
                          i + 1, tbl)
    ELSE priorityLoop(cc, i + 1, tbl)

\* _updateSensorPriority on a sensors table: nothing for a None or empty ccline.
updateSensorPriority(tbl) ==
    IF Truthy(tbl["ccline"])
    THEN [tbl EXCEPT !["ccline"] = JList(priorityLoop(tbl["ccline"].items, 0, tbl))]
    ELSE tbl

\* The refresh loops visit the lines in order; when the engine raises at a
\* line, the lines before it are refreshed and the loop is left there.
Before(l) == {LineOrder[i] : i \in {j \in 1..Len(LineOrder) : \E k \in (j + 1)..Len(LineOrder) : LineOrder[k] = l}}

Refreshed == IF engFault = "none" THEN LineIDs ELSE Before(engFault)

\* updateSensorsData, lines 337-343: [tbl, raised].
updateSensorsData ==
    IF ~iMapMgr THEN [tbl |-> sensorsDict, raised |-> FALSE]
    ELSE LET t == [l \in DOMAIN sensorsDict |-> IF l \in Refreshed THEN JList(engine.sensors[l])
                                      ELSE sensorsDict[l]]
         IN  IF engFault # "none" THEN [tbl |-> t, raised |-> TRUE]
             ELSE [tbl |-> IF gTestMD THEN t ELSE updateSensorPriority(t), raised |-> FALSE]

\* A refresh that builds the table anew, so that the lines after a raising
\* one are lost.
updateStationsDataRebuilt ==
    IF ~iMapMgr THEN [tbl |-> stationsDict, raised |-> FALSE]
    ELSE [tbl |-> [l \in Refreshed \cup ({engFault} \cap LineIDs) |->
                     IF l \in Refreshed
                     THEN JList([i \in 1..Len(engine.stations[l]) |->
                                    IF engine.stations[l][i] THEN 1 ELSE 0])
                     ELSE JList(<<>>)],
          raised |-> engFault # "none"]

\* updateStationsData, lines 360-366: the entry is emptied before the engine
\* is asked for the line's stations.
updateStationsData ==
    IF ~iMapMgr THEN [tbl |-> stationsDict, raised |-> FALSE]
    ELSE [tbl |-> [l \in DOMAIN stationsDict |->
                     IF l \in Refreshed
                     THEN JList([i \in 1..Len(engine.stations[l]) |->
                                    IF engine.stations[l][i] THEN 1 ELSE 0])
                     ELSE IF l = engFault THEN JList(<<>>) ELSE stationsDict[l]],
          raised |-> engFault # "none"]

\* updateTrainsPwrData, lines 369-375.
updateTrainsPwrData ==
    IF ~iMapMgr THEN [tbl |-> trainsDict, raised |-> FALSE]
    ELSE [tbl |-> [l \in DOMAIN trainsDict |->
                     IF l \in Refreshed
                     THEN JList([i \in 1..Len(engine.power[l]) |->
                                    IF engine.power[l][i] = 0 THEN 0 ELSE 1])
                     ELSE IF l = engFault THEN JList(<<>>) ELSE trainsDict[l]],
          raised |-> engFault # "none"]

\* updateTrainsSenData, lines 377-384.
updateTrainsSenData ==
    IF ~iMapMgr THEN [tbl |-> trainsRtuDict, raised |-> FALSE]
    ELSE [tbl |-> [l \in DOMAIN trainsRtuDict |->
                     IF l \in Refreshed
                     THEN JList([i \in 1..Len(engine.info[l]) |->
                                    LET s == engine.info[l][i]
                                    IN  <<s.fsensor, s.speed, s.voltage, s.current>>])
                     ELSE IF l = engFault THEN JList(<<>>) ELSE trainsRtuDict[l]],
          raised |-> engFault # "none"]

\* ---------------------------------------------------------------- replies
\* A reply REP;<type>;<json> is kept as its type and its decoded body.
Reply(t, body) == [kind |-> "reply", type |-> t, body |-> body]

\* No reply yet: the request is still being handled.
NoResp == [kind |-> "none", type |-> "", body |-> EmptyObj]

\* msgHandler returned None (line 231).
NoneResp == [kind |-> "None", type |-> "", body |-> EmptyObj]

\* msgHandler raised.
RaisedResp == [kind |-> "raise", type |-> "", body |-> EmptyObj]

\* A reply that keeps only the keys found in the table.
FillReplyLinesOnly(obj, tbl) == [k \in DOMAIN obj \cap DOMAIN tbl |-> tbl[k]]

\* The reply of a fetch (lines 154-156): every requested key is kept, a key
\* of the table is paired with the table's value.
FillReply(obj, tbl) == [k \in DOMAIN obj |-> IF k \in DOMAIN tbl THEN tbl[k] ELSE obj[k]]

\* ---------------------------------------------------------------- fetches
\* A sensors fetch that leaves the timestamp alone while the engine is
\* unavailable.
fetchSensorInfoStampedWhenUp(body) ==
    LET j == jsonLoads(body)
        u == updateSensorsData
    IN  IF ~j.ok
        THEN /\ resp' = Reply("sensors", ResultObj("failed"))
             /\ UNCHANGED <<tableVars, stampVars>>
        ELSE /\ sensorPlcUpdateT' = IF iMapMgr THEN now ELSE sensorPlcUpdateT
             /\ sensorsDict' = u.tbl
             /\ resp' = Reply("sensors", IF u.raised \/ ~j.isObj THEN ResultObj("failed")
                                         ELSE FillReply(j.obj, u.tbl))
             /\ UNCHANGED <<stationsDict, trainsDict, trainsRtuDict,
                            stationPlcUpdateT, trainPlcUpdateT, trainRtuUpdateT>>

fetchSensorInfo(body) ==
    LET j == jsonLoads(body)
        u == updateSensorsData
    IN  IF ~j.ok
        THEN /\ resp' = Reply("sensors", ResultObj("failed"))
             /\ UNCHANGED <<tableVars, stampVars>>
        ELSE /\ sensorPlcUpdateT' = now
             /\ sensorsDict' = u.tbl
             /\ resp' = Reply("sensors", IF u.raised \/ ~j.isObj THEN ResultObj("failed")
                                         ELSE FillReply(j.obj, u.tbl))
             /\ UNCHANGED <<stationsDict, trainsDict, trainsRtuDict,
                            stationPlcUpdateT, trainPlcUpdateT, trainRtuUpdateT>>

fetchStationInfo(body) ==
    LET j == jsonLoads(body)
        u == updateStationsData
    IN  IF ~j.ok
        THEN /\ resp' = Reply("stations", ResultObj("failed"))
             /\ UNCHANGED <<tableVars, stampVars>>
        ELSE /\ stationPlcUpdateT' = now
             /\ stationsDict' = u.tbl
             /\ resp' = Reply("stations", IF u.raised \/ ~j.isObj THEN ResultObj("failed")
                                          ELSE FillReply(j.obj, u.tbl))
             /\ UNCHANGED <<sensorsDict, trainsDict, trainsRtuDict,
                            sensorPlcUpdateT, trainPlcUpdateT, trainRtuUpdateT>>

fetchTrainPwrInfo(body) ==
    LET j == jsonLoads(body)
        u == updateTrainsPwrData
    IN  IF ~j.ok
        THEN /\ resp' = Reply("trainsPlc", ResultObj("failed"))
             /\ UNCHANGED <<tableVars, stampVars>>
        ELSE /\ trainPlcUpdateT' = now
             /\ trainsDict' = u.tbl
             /\ resp' = Reply("trainsPlc", IF u.raised \/ ~j.isObj THEN ResultObj("failed")
                                           ELSE FillReply(j.obj, u.tbl))
             /\ UNCHANGED <<sensorsDict, stationsDict, trainsRtuDict,
                            sensorPlcUpdateT, stationPlcUpdateT, trainRtuUpdateT>>

\* Line 196 tests the key against trainsDict and reads trainsRtuDict.
fetchTrainSensInfo(body) ==
    LET j == jsonLoads(body)
        u == updateTrainsSenData
    IN  IF ~j.ok
        THEN /\ resp' = Reply("trainsRtu", ResultObj("failed"))
             /\ UNCHANGED <<tableVars, stampVars>>
        ELSE /\ trainRtuUpdateT' = now
             /\ trainsRtuDict' = u.tbl
             /\ resp' = Reply("trainsRtu",
                              IF u.raised \/ ~j.isObj THEN ResultObj("failed")
                              ELSE [k \in DOMAIN j.obj |->
                                       IF k \in DOMAIN trainsDict THEN u.tbl[k] ELSE j.obj[k]])
             /\ UNCHANGED <<sensorsDict, stationsDict, trainsDict,
                            sensorPlcUpdateT, stationPlcUpdateT, trainPlcUpdateT>>

\* ---------------------------------------------------------------- setters
SetterCalls(fn, obj) == {<<fn, k, obj[k]>> : k \in DOMAIN obj}

\* A setSignals that forwards the body whatever the junction-avoidance flag.
setSignalsIgnoringFlag(body) ==
    LET j == jsonLoads(body) IN
    IF ~j.ok \/ ~iMapMgr \/ ~j.isObj
    THEN /\ resp' = Reply("signals", ResultObj("failed"))
         /\ calls' = {}
    ELSE /\ resp' = Reply("signals", ResultObj("success"))
         /\ calls' = SetterCalls("setSingals", j.obj)

\* setSignals, lines 294-305: with the junction-avoidance flag the body is
\* not even iterated.
setSignals(body) ==
    LET j == jsonLoads(body) IN
    IF ~j.ok \/ ~iMapMgr
    THEN /\ resp' = Reply("signals", ResultObj("failed"))
         /\ calls' = {}
    ELSE IF gJuncAvoid
    THEN /\ resp' = Reply("signals", ResultObj("success"))
         /\ calls' = {}
    ELSE IF ~j.isObj
    THEN /\ resp' = Reply("signals", ResultObj("failed"))
         /\ calls' = {}
    ELSE /\ resp' = Reply("signals", ResultObj("success"))
         /\ calls' = SetterCalls("setSingals", j.obj)

\* setStationSignals, lines 308-318.
setStationSignals(body) ==
    LET j == jsonLoads(body) IN
    IF ~j.ok \/ ~iMapMgr \/ ~j.isObj
    THEN /\ resp' = Reply("stations", ResultObj("failed"))
         /\ calls' = {}
    ELSE /\ resp' = Reply("stations", ResultObj("success"))
         /\ calls' = SetterCalls("setStationSignal", j.obj)

\* setTrainsPower, lines 321-331.
setTrainsPower(body) ==
    LET j == jsonLoads(body) IN
    IF ~j.ok \/ ~iMapMgr \/ ~j.isObj
    THEN /\ resp' = Reply("trainsPlc", ResultObj("failed"))
         /\ calls' = {}
    ELSE /\ resp' = Reply("trainsPlc", ResultObj("success"))
         /\ calls' = SetterCalls("setTainsPower", j.obj)

\* ---------------------------------------------------------------- fan-out
\* A fan-out that passes the power-link value on as the stop flag.
StopFlagNotNegated(railway_on) == railway_on

\* stop_flag = not bool(railway_on), line 131.
StopFlag(railway_on) == ~railway_on

IdleFan == [on |-> TRUE, li |-> Len(LineOrder) + 1, ti |-> 1, called |-> {},
            skipped |-> FALSE, overlap |-> FALSE]

\* The next setEmgStop call at or after train ti of line li: a line whose
\* trains are exhausted, or whose getTrains raises, is left for the next one.
RECURSIVE NormPos(_, _)
NormPos(li, ti) ==
    IF li > Len(LineOrder) THEN <<Len(LineOrder) + 1, 1>>
    ELSE IF ti > TrainsOnLine[LineOrder[li]] \/ engFault = LineOrder[li]
    THEN NormPos(li + 1, 1)
    ELSE <<li, ti>>

\* The position after the setEmgStop call at (li, ti): an exception leaves
\* the inner loop, so the try block of lines 133-137 skips the rest of the line.
AfterCall(li, ti, raised) == IF raised THEN NormPos(li + 1, 1) ELSE NormPos(li, ti + 1)

\* Entering _applyRailwayPowerLink(on): lines 129-131.
FanBegin(on) ==
    LET pos == NormPos(1, 1) IN
    IF ~iMapMgr
    THEN [pc |-> "returned", fan |-> [IdleFan EXCEPT !.on = on, !.skipped = TRUE]]
    ELSE [pc |-> IF pos[1] > Len(LineOrder) THEN "returned" ELSE "fanout",
          fan |-> [IdleFan EXCEPT !.on = on, !.li = pos[1], !.ti = pos[2]]]

\* One train.setEmgStop(stop_flag) call of thread t, line 135.
FanStep(t) ==
    /\ pc[t] = "fanout"
    /\ LET f == fan[t]
           line == LineOrder[f.li]
           raised == <<line, f.ti>> \in broken
           pos == AfterCall(f.li, f.ti, raised)
       IN  /\ emgStop' = IF raised THEN emgStop
                         ELSE [emgStop EXCEPT ![line][f.ti] = StopFlag(f.on)]
           /\ fan' = [u \in Threads |->
                        IF u = t
                        THEN [f EXCEPT !.li = pos[1], !.ti = pos[2],
                                       !.called = IF raised THEN @ ELSE @ \cup {<<line, f.ti>>}]
                        ELSE IF pc[u] \in {"fanout", "returned"} /\ ~raised
                        THEN [fan[u] EXCEPT !.overlap = TRUE]
                        ELSE fan[u]]
           /\ pc' = [pc EXCEPT ![t] = IF pos[1] > Len(LineOrder) THEN "returned" ELSE "fanout"]
    /\ UNCHANGED <<iMapMgr, cfgVars, engVars, tableVars, stampVars, now,
                   last_powerlink_railway, watchVars, req, resp, calls>>

\* ------------------------------------------------------------- dispatcher
\* The value a POST/powerLink body carries (lines 266-267): "bad" when the
\* decoding raises.
RailwayOf(j) ==
    IF ~j.ok \/ ~j.isObj THEN "bad"
    ELSE IF "railway" \in DOMAIN j.obj
    THEN (IF Truthy(j.obj["railway"]) THEN "True" ELSE "False")
    ELSE "True"

\* json.loads(reqJsonStr) if reqJsonStr else {}
PushBody(body) == IF body = <<>> THEN [ok |-> TRUE, isObj |-> TRUE, obj |-> EmptyObj]
                  ELSE jsonLoads(body)

\* An edge test that lets every decoded value through.
NeedsApplyEveryPush(last, value) == TRUE

\* The edge test of line 268.
NeedsApply(last, value) == last = "None" \/ value # last

\* The POST/powerLink branch up to the call of line 269.
powerLinkBegin(body) ==
    LET v == RailwayOf(PushBody(body)) IN
    IF v = "bad"
    THEN /\ resp' = Reply("powerLink", ResultObj("failed"))
         /\ UNCHANGED <<pc, fan>>
    ELSE IF NeedsApply(last_powerlink_railway, v)
    THEN LET b == FanBegin(v = "True")
         IN  /\ pc' = [pc EXCEPT !["disp"] = b.pc]
             /\ fan' = [fan EXCEPT !["disp"] = b.fan]
             /\ resp' = NoResp
    ELSE /\ resp' = Reply("powerLink", ResultObj("success"))
         /\ UNCHANGED <<pc, fan>>

\* msgHandler(msg), lines 223-279.  The fan-out of a POST/powerLink goes on
\* in FanStep and ends in powerLinkEnd.
msgHandler(m) ==
    /\ pc["disp"] = "idle"
    /\ req' = m
    /\ LET p == parseIncomeMsg(m)
           plain(r) == /\ resp' = r
                       /\ calls' = {}
                       /\ UNCHANGED <<tableVars, stampVars, pc, fan>>
       IN  IF m = <<>> THEN plain(NoneResp)
           ELSE IF p.raised THEN plain(RaisedResp)
           ELSE IF p.key = <<"GET">> /\ p.type = <<"login">>
           THEN plain(Reply("login", [k \in {"state"} |-> JStr("ready")]))
           ELSE IF p.key = <<"GET">> /\ p.type = <<"sensors">>
           THEN fetchSensorInfo(p.body) /\ calls' = {} /\ UNCHANGED <<pc, fan>>
           ELSE IF p.key = <<"GET">> /\ p.type = <<"stations">>
           THEN fetchStationInfo(p.body) /\ calls' = {} /\ UNCHANGED <<pc, fan>>
           ELSE IF p.key = <<"GET">> /\ p.type = <<"trainsPlc">>
           THEN fetchTrainPwrInfo(p.body) /\ calls' = {} /\ UNCHANGED <<pc, fan>>
           ELSE IF p.key = <<"GET">> /\ p.type = <<"trainsRtu">>
           THEN fetchTrainSensInfo(p.body) /\ calls' = {} /\ UNCHANGED <<pc, fan>>
           ELSE IF p.key = <<"POST">> /\ p.type = <<"signals">>
           THEN setSignals(p.body) /\ UNCHANGED <<tableVars, stampVars, pc, fan>>
           ELSE IF p.key = <<"POST">> /\ p.type = <<"stations">>
           THEN setStationSignals(p.body) /\ UNCHANGED <<tableVars, stampVars, pc, fan>>
           ELSE IF p.key = <<"POST">> /\ p.type = <<"trainsPlc">>
           THEN setTrainsPower(p.body) /\ UNCHANGED <<tableVars, stampVars, pc, fan>>
           ELSE IF p.key = <<"POST">> /\ p.type = <<"powerLink">>
           THEN powerLinkBegin(p.body) /\ calls' = {} /\ UNCHANGED <<tableVars, stampVars>>
           ELSE plain(Reply("deny", EmptyObj))
    /\ UNCHANGED <<iMapMgr, cfgVars, engVars, emgStop, now, last_powerlink_railway, watchVars>>

\* Lines 270-271, after _applyRailwayPowerLink has returned.
powerLinkEnd ==
    /\ pc["disp"] = "returned"
    /\ last_powerlink_railway' = IF fan["disp"].on THEN "True" ELSE "False"
    /\ resp' = Reply("powerLink", ResultObj("success"))
    /\ pc' = [pc EXCEPT !["disp"] = "idle"]
    /\ fan' = [fan EXCEPT !["disp"] = IdleFan]
    /\ UNCHANGED <<iMapMgr, cfgVars, engVars, emgStop, tableVars, stampVars, now,
                   watchVars, req, calls>>

\* ---------------------------------------------------------------- watcher
TripCount == 3

\* What one round trip of PowerLinkWatcher.run gives (lines 494-500): the
\* reading "True" or "False", or "none" when the reply is not a powerLink
\* reply or its decoding raises.
WatcherReading(r) ==
    LET p == parseIncomeMsg(r) IN
    IF p.raised THEN "none"
    ELSE IF p.key = <<"REP">> /\ p.type = <<"powerLink">>
    THEN LET v == RailwayOf(jsonLoads(p.body)) IN IF v = "bad" THEN "none" ELSE v
    ELSE "none"

\* A debounce that acts one reading early.
TripsOneEarly(count) == count >= TripCount - 1

\* The debounce test of line 508.
Trips(count) == count >= TripCount

\* A watcher that switches the trains' power on when it trips.
TripPowerOn == TRUE

\* The state the watcher passes on when it trips:
\* self._set_all_trains_power(False), line 509.
TripPower == FALSE

\* One iteration of PowerLinkWatcher.run up to the call of line 509.
watcherPoll(r) ==
    /\ pc["watch"] = "idle"
    /\ LET v == WatcherReading(r) IN
       IF v = "True"
       THEN /\ seen_true' = TRUE
            /\ false_count' = 0
            /\ UNCHANGED <<pc, fan>>
       ELSE IF v = "False" /\ seen_true
       THEN /\ false_count < MaxPolls
            /\ false_count' = false_count + 1
            /\ seen_true' = seen_true
            /\ IF Trips(false_count + 1)
               THEN LET b == FanBegin(TripPower)
                    IN  /\ pc' = [pc EXCEPT !["watch"] = b.pc]
                        /\ fan' = [fan EXCEPT !["watch"] = b.fan]
               ELSE UNCHANGED <<pc, fan>>
       ELSE UNCHANGED <<watchVars, pc, fan>>
    /\ UNCHANGED <<iMapMgr, cfgVars, engVars, emgStop, tableVars, stampVars, now,
                   last_powerlink_railway, req, resp, calls>>

\* A watcher whose run loop is left after the call of line 509.
watcherLeavesLoop ==
    /\ pc["watch"] = "returned"
    /\ pc' = [pc EXCEPT !["watch"] = "stopped"]
    /\ fan' = [fan EXCEPT !["watch"] = IdleFan]
    /\ UNCHANGED <<iMapMgr, cfgVars, engVars, emgStop, tableVars, stampVars, now,
                   last_powerlink_railway, watchVars, req, resp, calls>>

\* _set_all_trains_power has returned: the iteration ends (lines 510-514).
watcherEnd ==
    /\ pc["watch"] = "returned"
    /\ pc' = [pc EXCEPT !["watch"] = "idle"]
    /\ fan' = [fan EXCEPT !["watch"] = IdleFan]
    /\ UNCHANGED <<iMapMgr, cfgVars, engVars, emgStop, tableVars, stampVars, now,
                   last_powerlink_railway, watchVars, req, resp, calls>>

\* ------------------------------------------------------------ environment
\* The main program constructs the engine and sets gv.iMapMgr.
EngineUp ==
    /\ ~iMapMgr
    /\ iMapMgr' = TRUE
    /\ UNCHANGED <<cfgVars, engVars, emgStop, tableVars, stampVars, now,
                   last_powerlink_railway, watchVars, pc, fan, req, resp, calls>>

\* The simulation moves on.
EngineChange ==
    /\ engine' \in EngineWorlds \ {engine}
    /\ UNCHANGED <<iMapMgr, cfgVars, engFault, broken, emgStop, tableVars, stampVars, now,
                   last_powerlink_railway, watchVars, pc, fan, req, resp, calls>>

\* An engine agent starts or stops raising.
FaultChange ==
    /\ engFault' \in (LineIDs \cup {"none"}) \ {engFault}
    /\ pc = [t \in Threads |-> "idle"]
    /\ UNCHANGED <<iMapMgr, cfgVars, engine, broken, emgStop, tableVars, stampVars, now,
                   last_powerlink_railway, watchVars, pc, fan, req, resp, calls>>

Tick ==
    /\ now < MaxTime
    /\ now' = now + 1
    /\ UNCHANGED <<iMapMgr, cfgVars, engVars, emgStop, tableVars, stampVars,
                   last_powerlink_railway, watchVars, pc, fan, req, resp, calls>>

\* ------------------------------------------------------------------ wire
Wire(k, t, body) == <<k, Delim, t, Delim>> \o body

Obj1(k, v) == <<"{", k, v, "}">>

\* The bodies a POST/powerLink request or a powerLink reply may carry.
LinkBodies == {Obj1("railway", "1"), Obj1("railway", "0"), Obj1("railway", "null"),
               EmptyObjText, <<"[]">>, <<"{">>}

PushMsgs == {Wire("POST", "powerLink", b) : b \in LinkBodies \cup {<<>>}}

PollReplies == {Wire("REP", "powerLink", b) : b \in LinkBodies}
               \cup {<<>>, <<BadByte>>, Wire("REP", "deny", EmptyObjText)}

\* ---------------------------------------------------------- initial state
\* DataManager.__init__ and PowerLinkWatcher.__init__.
InitProgram ==
    /\ sensorsDict = EmptyTable
    /\ stationsDict = EmptyTable
    /\ trainsDict = EmptyTable
    /\ trainsRtuDict = EmptyTable
    /\ sensorPlcUpdateT = 0
    /\ stationPlcUpdateT = 0
    /\ trainPlcUpdateT = 0
    /\ trainRtuUpdateT = 0
    /\ last_powerlink_railway = "None"
    /\ seen_true = FALSE
    /\ false_count = 0
    /\ pc = [t \in Threads |-> "idle"]
    /\ fan = [t \in Threads |-> IdleFan]
    /\ resp = NoResp
    /\ calls = {}
    /\ polled = <<>>
    /\ pollStops = 0
    /\ pushed = <<>>
    /\ applied = <<>>

\* No worker is started (lines 100-119 with the three flags off) and stop
\* has not been called.
NoSender == [on |-> FALSE, out |-> <<>>, n |-> 0]

NoLogger == [pc |-> "off", out |-> <<>>, n |-> 0]

InitWorkers ==
    /\ terminate = FALSE
    /\ totalsSender = NoSender
    /\ totalsLogger = NoLogger

\* The trains start released.
InitTrains == emgStop = [l \in LineIDs |-> [i \in 1..TrainsOnLine[l] |-> FALSE]]

\* ------------------------------------------------ the interlock, two threads
\* The requests and replies of the two-thread runs: a true and a false value
\* and a body whose decoding raises.
CoreBodies == {Obj1("railway", "1"), Obj1("railway", "0"), <<"[]">>}

CorePushMsgs == {Wire("POST", "powerLink", b) : b \in CoreBodies}

CorePollReplies == {Wire("REP", "powerLink", b) : b \in CoreBodies}

BrokenChoices == {{}, {<<"weline", 1>>}, {<<"ccline", MaxTrains>>}}

Init ==
    /\ InitProgram
    /\ InitWorkers
    /\ InitTrains
    /\ req = <<>>
    /\ iMapMgr \in BOOLEAN
    /\ gTestMD = FALSE
    /\ gJuncAvoid = FALSE
    /\ engine = EngineWorld(1)
    /\ engFault = "none"
    /\ broken \in BrokenChoices
    /\ now = 0

Next ==
    \/ \E m \in CorePushMsgs : msgHandler(m) /\ UNCHANGED <<histVars, workerVars>>
    \/ FanStep("disp") /\ UNCHANGED <<histVars, workerVars>>
    \/ powerLinkEnd /\ UNCHANGED <<histVars, workerVars>>
    \/ \E r \in CorePollReplies : watcherPoll(r) /\ UNCHANGED <<histVars, workerVars>>
    \/ FanStep("watch") /\ UNCHANGED <<histVars, workerVars>>
    \/ watcherEnd /\ UNCHANGED <<histVars, workerVars>>
    \/ EngineUp /\ UNCHANGED <<histVars, workerVars>>

Spec == Init /\ [][Next]_vars

\* C1: when _applyRailwayPowerLink(railway_on) returns, having found the
\* engine available and with no train raising, setEmgStop has been called on
\* every train of every line, and (no other fan-out having written a train
\* meanwhile) every train's emergency-stop flag is (not railway_on).
C1_FanOutReachesEveryTrain ==
    \A t \in Threads :
        (pc[t] = "returned" /\ ~fan[t].skipped /\ broken = {}) =>
            /\ fan[t].called = AllTrains
            /\ ~fan[t].overlap =>
                   \A tr \in AllTrains : emgStop[tr[1]][tr[2]] = ~fan[t].on

C1_Witness ==
    /\ pc["disp"] = "returned"
    /\ ~fan["disp"].skipped
    /\ ~fan["disp"].overlap
    /\ ~fan["disp"].on
    /\ broken = {}
    /\ \A tr \in AllTrains : emgStop[tr[1]][tr[2]]

\* C4: a setEmgStop that raises on one train is skipped individually: when
\* the fan-out returns, every other train, the later trains of the same line
\* included, has received the command.
C4_FailureSkippedPerTrain ==
    \A t \in Threads :
        (pc[t] = "returned" /\ ~fan[t].skipped) => (AllTrains \ broken) \subseteq fan[t].called

\* --------------------------------------------- the poll path, with history
\* An iteration of the watcher, the reading it decoded and the call of
\* _set_all_trains_power it made (if any) being recorded.
watcherPollRecorded(r) ==
    /\ watcherPoll(r)
    /\ LET v == WatcherReading(r) IN
       /\ v # "none" => Len(polled) < MaxPolls
       /\ polled' = IF v = "none" THEN polled ELSE Append(polled, v = "True")
    /\ pollStops' = pollStops + (IF pc'["watch"] # "idle" THEN 1 ELSE 0)
    /\ UNCHANGED <<pushed, applied, workerVars>>

InitPoll ==
    /\ InitProgram
    /\ InitWorkers
    /\ InitTrains
    /\ req = <<>>
    /\ iMapMgr \in BOOLEAN
    /\ gTestMD = FALSE
    /\ gJuncAvoid = FALSE
    /\ engine = EngineWorld(1)
    /\ engFault = "none"
    /\ broken = {}
    /\ now = 0

NextPoll ==
    \/ \E r \in PollReplies : watcherPollRecorded(r)
    \/ FanStep("watch") /\ UNCHANGED <<histVars, workerVars>>
    \/ watcherEnd /\ UNCHANGED <<histVars, workerVars>>
    \/ EngineUp /\ UNCHANGED <<histVars, workerVars>>

SpecPoll == InitPoll /\ [][NextPoll]_vars

\* The readings at which the debounce rule asks for the stop: the third of
\* three consecutive false readings or a later one of the same run, a true
\* reading having come before the run.
TripPoints(h) ==
    {i \in 3..Len(h) :
        /\ ~h[i] /\ ~h[i - 1] /\ ~h[i - 2]
        /\ \E k \in 1..(i - 3) : h[k]}

\* C2: the watcher applies an emergency-stop only once a true reading has
\* been followed by three consecutive false readings, and then it does:
\* true,false,false applies none; true,false,false,false applies exactly
\* one; false,false,false applies none.
C2_PollDebounce ==
    /\ pollStops > 0 <=> TripPoints(polled) # {}
    /\ polled = <<TRUE, FALSE, FALSE>> => pollStops = 0
    /\ polled = <<TRUE, FALSE, FALSE, FALSE>> => pollStops = 1
    /\ polled = <<FALSE, FALSE, FALSE>> => pollStops = 0

C2_Witness ==
    /\ polled = <<TRUE, FALSE, FALSE, FALSE>>
    /\ pollStops = 1
    /\ pc["watch"] = "returned"
    /\ \A tr \in AllTrains : emgStop[tr[1]][tr[2]]

\* --------------------------------------------- the push path, with history
\* The value a POST/powerLink datagram carries, as line 266-267 decode it.
PushRailway(m) == RailwayOf(PushBody(parseIncomeMsg(m).body))

\* A POST/powerLink request, its value and whether it invoked the fan-out
\* being recorded.
powerLinkRecorded(m) ==
    /\ Len(pushed) < MaxPush
    /\ msgHandler(m)
    /\ pushed' = Append(pushed, PushRailway(m))
    /\ applied' = Append(applied, pc'["disp"] # "idle")
    /\ UNCHANGED <<polled, pollStops, workerVars>>

NextPush ==
    \/ \E m \in PushMsgs : powerLinkRecorded(m)
    \/ FanStep("disp") /\ UNCHANGED <<histVars, workerVars>>
    \/ powerLinkEnd /\ UNCHANGED <<histVars, workerVars>>
    \/ EngineUp /\ UNCHANGED <<histVars, workerVars>>

SpecPush == InitPoll /\ [][NextPush]_vars

\* The pushes before push i that carried a value.
ValuedBefore(h, i) == {k \in 1..(i - 1) : h[k] # "bad"}

MaxOf(S) == CHOOSE x \in S : \A y \in S : y <= x

\* C3: a POST/powerLink request invokes the fan-out if and only if it is the
\* first push carrying a value or its value differs from the value of the
\* previous one; the same value pushed twice in a row is applied once.
C3_PushEdgeTriggered ==
    \A i \in 1..Len(pushed) :
        applied[i] <=>
            /\ pushed[i] # "bad"
            /\ \/ ValuedBefore(pushed, i) = {}
               \/ pushed[MaxOf(ValuedBefore(pushed, i))] # pushed[i]

C3_Witness ==
    /\ pushed = <<"False", "False">>
    /\ applied = <<TRUE, FALSE>>
    /\ resp = Reply("powerLink", ResultObj("success"))
    /\ \A tr \in AllTrains : emgStop[tr[1]][tr[2]]

\* ------------------------------------------- the dispatcher, one datagram
\* Every token sequence of at most n tokens over the alphabet A.
RECURSIVE SeqsUpTo(_, _)
SeqsUpTo(A, n) ==
    IF n = 0 THEN {<<>>}
    ELSE LET shorter == SeqsUpTo(A, n - 1)
         IN  shorter \cup {Append(q, a) : q \in shorter, a \in A}

RawAlphabet == {"GET", Delim, WS, BadByte}

RawMsgs == SeqsUpTo(RawAlphabet, MaxLen)

MsgKeys == {"GET", "POST", "PUT"}

MsgTypes == {"login", "sensors", "stations", "trainsPlc", "trainsRtu", "signals",
             "powerLink", "other"}

MsgBodies == {EmptyObjText, Obj1("weline", "null"), Obj1("railway", "0"), <<"[]">>,
              <<"{">>, <<>>, <<"{", Delim, "}">>}

FormedMsgs == {Wire(k, t, b) : k \in MsgKeys, t \in MsgTypes, b \in MsgBodies}
              \cup {<<WS, "GET", WS, Delim, WS, "login", Delim>>}

\* The datagram is in req when the run starts; msgHandler is applied to it.
InitMsg ==
    /\ InitProgram
    /\ InitWorkers
    /\ InitTrains
    /\ req \in RawMsgs \cup FormedMsgs
    /\ iMapMgr \in BOOLEAN
    /\ gTestMD = FALSE
    /\ gJuncAvoid \in BOOLEAN
    /\ engine = EngineWorld(1)
    /\ engFault \in {"none", "nsline"}
    /\ broken = {}
    /\ now = 0

NextMsg ==
    \/ msgHandler(req) /\ UNCHANGED <<histVars, workerVars>>
    \/ FanStep("disp") /\ UNCHANGED <<histVars, workerVars>>
    \/ powerLinkEnd /\ UNCHANGED <<histVars, workerVars>>

SpecMsg == InitMsg /\ [][NextMsg]_vars

\* C5: for every inbound datagram msgHandler does not raise and gives back a
\* well-formed reply REP;<type>;<json>, which is REP;deny;{} or carries
\* {"result":"failed"} when the handling failed.
C5_AlwaysWellFormedReply ==
    resp.kind # "none" =>
        /\ resp.kind = "reply"
        /\ resp.type \in MsgTypes \cup {"deny"}
        /\ resp.type = "deny" => resp.body = EmptyObj

\* C6: parseIncomeMsg (once msgHandler has applied it to the datagram)
\* never raises; an input with fewer than two ';' gives
\* ("", "", "{}"), and KEY;TYPE;BODY gives KEY and TYPE (stripped) and BODY
\* intact, further ';' included.
C6_ParseNeverRaises ==
    LET p == parseIncomeMsg(req)
        D == {i \in 1..Len(req) : req[i] = Delim}
    IN  resp.kind \notin {"none", "None"} =>
        /\ ~p.raised
        /\ Cardinality(D) < 2 =>
               /\ p.key = <<>>
               /\ p.type = <<>>
               /\ p.body = EmptyObjText
        /\ Cardinality(D) >= 2 =>
               \E i, j \in D :
                   /\ i < j
                   /\ \A k \in D : k = i \/ k >= j
                   /\ p.key = strip(SubSeq(req, 1, i - 1))
                   /\ p.type = strip(SubSeq(req, i + 1, j - 1))
                   /\ p.body = SubSeq(req, j + 1, Len(req))

\* ------------------------------------------------------- the state cache
\* The text of a JSON object whose keys f maps to value tokens.
KeyOrder == <<"weline", "nsline", "ccline", "mtline", "other", "railway">>

RECURSIVE ObjPairs(_, _)
ObjPairs(f, i) ==
    IF i > Len(KeyOrder) THEN <<>>
    ELSE (IF KeyOrder[i] \in DOMAIN f THEN <<KeyOrder[i], f[KeyOrder[i]]>> ELSE <<>>)
         \o ObjPairs(f, i + 1)

ObjText(f) == <<"{">> \o ObjPairs(f, 1) \o <<"}">>

FetchTypes == {"sensors", "stations", "trainsPlc", "trainsRtu"}

\* The request objects of the fetches: the keys asked for, each with the
\* value token the request gives it.
FetchRequests ==
    {[weline |-> "null"], [ccline |-> "1", other |-> "1"], [k \in LineIDs |-> "null"]}

FetchMsgs == {Wire("GET", t, ObjText(f)) : t \in FetchTypes, f \in FetchRequests}
             \cup {Wire("GET", t, <<"[]">>) : t \in FetchTypes}

\* Fetches of all four lines and of a list body, a set request and a
\* power-link event.
CacheMsgs ==
    {Wire("GET", t, b) : t \in FetchTypes, b \in {ObjText([k \in LineIDs |-> "null"]), <<"[]">>}}
    \cup {Wire("POST", "stations", Obj1("weline", "1")),
          Wire("POST", "powerLink", Obj1("railway", "0"))}

TableOf(t) ==
    CASE t = "sensors" -> sensorsDict
      [] t = "stations" -> stationsDict
      [] t = "trainsPlc" -> trainsDict
      [] t = "trainsRtu" -> trainsRtuDict

StampOf(t) ==
    CASE t = "sensors" -> sensorPlcUpdateT
      [] t = "stations" -> stationPlcUpdateT
      [] t = "trainsPlc" -> trainPlcUpdateT
      [] t = "trainsRtu" -> trainRtuUpdateT

\* The engine's current state of line l as channel t reports it.
EngineView(t, l) ==
    CASE t = "sensors" -> JList(engine.sensors[l])
      [] t = "stations" ->
            JList([i \in 1..Len(engine.stations[l]) |-> IF engine.stations[l][i] THEN 1 ELSE 0])
      [] t = "trainsPlc" ->
            JList([i \in 1..Len(engine.power[l]) |-> IF engine.power[l][i] = 0 THEN 0 ELSE 1])
      [] t = "trainsRtu" ->
            JList([i \in 1..Len(engine.info[l]) |->
                     <<engine.info[l][i].fsensor, engine.info[l][i].speed,
                       engine.info[l][i].voltage, engine.info[l][i].current>>])

InitFetch ==
    /\ InitProgram
    /\ InitWorkers
    /\ InitTrains
    /\ req = <<>>
    /\ iMapMgr = FALSE
    /\ gTestMD \in BOOLEAN
    /\ gJuncAvoid = FALSE
    /\ engine \in EngineWorlds
    /\ engFault \in {"none", "ccline"}
    /\ broken = {}
    /\ now = 0

NextFetch ==
    \/ \E m \in FetchMsgs : msgHandler(m) /\ UNCHANGED <<histVars, workerVars>>
    \/ EngineUp /\ UNCHANGED <<histVars, workerVars>>
    \/ EngineChange /\ UNCHANGED <<histVars, workerVars>>

SpecFetch == InitFetch /\ [][NextFetch]_vars

InitCache ==
    /\ InitProgram
    /\ InitWorkers
    /\ InitTrains
    /\ req = <<>>
    /\ iMapMgr = FALSE
    /\ gTestMD = FALSE
    /\ gJuncAvoid = FALSE
    /\ engine \in EngineWorlds
    /\ engFault \in {"none", "ccline"}
    /\ broken = {}
    /\ now = 0

NextCache ==
    \/ \E m \in CacheMsgs : msgHandler(m) /\ UNCHANGED <<histVars, workerVars>>
    \/ FanStep("disp") /\ UNCHANGED <<histVars, workerVars>>
    \/ powerLinkEnd /\ UNCHANGED <<histVars, workerVars>>
    \/ EngineUp /\ UNCHANGED <<histVars, workerVars>>
    \/ EngineChange /\ UNCHANGED <<histVars, workerVars>>

SpecCache == InitCache /\ [][NextCache]_vars

\* The fetches of a starting server: one request per channel, while time
\* passes and the engine comes up.
StampMsgs == {Wire("GET", t, ObjText([weline |-> "null", other |-> "1"])) : t \in FetchTypes}

InitStamp ==
    /\ InitProgram
    /\ InitWorkers
    /\ InitTrains
    /\ req = <<>>
    /\ iMapMgr = FALSE
    /\ gTestMD = FALSE
    /\ gJuncAvoid = FALSE
    /\ engine = EngineWorld(1)
    /\ engFault = "none"
    /\ broken = {}
    /\ now = 0

NextStamp ==
    \/ \E m \in StampMsgs : msgHandler(m) /\ UNCHANGED <<histVars, workerVars>>
    \/ Tick /\ UNCHANGED <<histVars, workerVars>>
    \/ EngineUp /\ UNCHANGED <<histVars, workerVars>>

SpecStamp == InitStamp /\ [][NextStamp]_vars

\* The entry of line l is the engine's state, bits of it possibly cleared.
ClearedOnly(v, l) ==
    /\ v.kind = "list"
    /\ Len(v.items) = Len(engine.sensors[l])
    /\ \A i \in 1..Len(v.items) : v.items[i] \in {0, engine.sensors[l][i]}

C8_UnavailableFetchStampsOnly ==
    [][\A t \in FetchTypes :
          LET f == [weline |-> "null", other |-> "1"]
          IN  (~iMapMgr /\ msgHandler(Wire("GET", t, ObjText(f)))) =>
                  /\ UNCHANGED tableVars
                  /\ StampOf(t)' = now
                  /\ \A u \in FetchTypes \ {t} : StampOf(u)' = StampOf(u)
                  /\ resp' = Reply(t, [k \in DOMAIN f |->
                                         IF k \in LineIDs THEN TableOf(t)[k] ELSE TokVal(f[k])])
      ]_vars

\* A sensors fetch at time 1 without the engine: nothing cached, the cached
\* None replied, the sensors' timestamp moved.
C8_Witness ==
    /\ ~iMapMgr
    /\ now > 0
    /\ req = Wire("GET", "sensors", ObjText([weline |-> "null", other |-> "1"]))
    /\ resp = Reply("sensors", [weline |-> JNull, other |-> JNum(1)])
    /\ sensorsDict = EmptyTable
    /\ sensorPlcUpdateT = now
    /\ stationPlcUpdateT = 0

\* C8 as claimed: with the engine unavailable a fetch leaves the four tables
\* and every channel's timestamp unchanged and replies with the cached values
\* of the requested lines.
C8_UnavailableFetchIsNoOp ==
    [][\A t \in FetchTypes :
          LET f == [weline |-> "null", other |-> "1"]
          IN  (~iMapMgr /\ msgHandler(Wire("GET", t, ObjText(f)))) =>
                  /\ UNCHANGED tableVars
                  /\ UNCHANGED stampVars
                  /\ resp'.kind = "reply"
                  /\ resp'.type = t
                  /\ \A k \in DOMAIN f \cap LineIDs : resp'.body[k] = TableOf(t)[k]
      ]_vars

\* C9: each of the four snapshot tables holds exactly the keys weline,
\* nsline, ccline and mtline in every reachable state.
C9_TablesKeepFourKeys ==
    /\ DOMAIN sensorsDict = {"weline", "nsline", "ccline", "mtline"}
    /\ DOMAIN stationsDict = {"weline", "nsline", "ccline", "mtline"}
    /\ DOMAIN trainsDict = {"weline", "nsline", "ccline", "mtline"}
    /\ DOMAIN trainsRtuDict = {"weline", "nsline", "ccline", "mtline"}

\* A stations fetch has failed with the engine raising at ccline, after the
\* earlier lines were refreshed.
C9_Witness ==
    /\ engFault = "ccline"
    /\ resp = Reply("stations", ResultObj("failed"))
    /\ stationsDict["weline"].kind = "list"
    /\ stationsDict["ccline"] = JList(<<>>)
    /\ stationsDict["mtline"] = JNull

\* ------------------------------------------------- the priority override
\* An array of length n whose elements at the (0-based) positions of S are v
\* and the others 1 - v.
Bits(n, S, v) == [i \in 1..n |-> IF (i - 1) \in S THEN v ELSE 1 - v]

SmallSets(P) == {S \in SUBSET P : Cardinality(S) <= MaxOnes}

\* The ccline arrays: empty, shorter than, and longer than the priority
\* table, all set or with two bits clear.
CcArrays == {Bits(n, Z, 0) : n \in {0, 9, 17}, Z \in {{}, {0, 8}}}

\* The nsline and weline arrays: a few bits set at positions the rules
\* list, in arrays that hold all or only some of the listed positions.
NsArrays == {Bits(n, S, 1) : n \in {3, 5}, S \in SmallSets({0, 2, 4})}

WeArrays == {Bits(n, S, 1) : n \in {8, 16}, S \in SmallSets({1, 7, 9, 15})}

PrioEngines ==
    {[EngineWorld(1) EXCEPT !.sensors = [weline |-> we, nsline |-> ns, ccline |-> cc,
                                         mtline |-> <<>>]] :
        we \in WeArrays, ns \in NsArrays, cc \in CcArrays}

PrioMsgs == {Wire("GET", "sensors", b) :
                b \in {ObjText([ccline |-> "null"]), ObjText([k \in LineIDs |-> "null"]),
                       <<"[]">>}}

InitPrio ==
    /\ InitProgram
    /\ InitWorkers
    /\ InitTrains
    /\ req = <<>>
    /\ iMapMgr = TRUE
    /\ gTestMD \in BOOLEAN
    /\ gJuncAvoid = FALSE
    /\ engine \in PrioEngines
    /\ engFault = "none"
    /\ broken = {}
    /\ now = 0

NextPrio == \E m \in PrioMsgs : msgHandler(m) /\ UNCHANGED <<histVars, workerVars>>

SpecPrio == InitPrio /\ [][NextPrio]_vars

\* Index i (0-based) of ccline is overridden: the priority table has a rule
\* at i, the engine's ccline value at i is true, and one of the rule's listed
\* indices is in range of the named line's array and true there.
Overridden(i) ==
    /\ i < 16
    /\ i < Len(priorityConfig)
    /\ priorityConfig[i + 1] # NoRule
    /\ engine.sensors["ccline"][i + 1] # 0
    /\ \E p \in 1..Len(priorityConfig[i + 1].idxs) :
          LET j == priorityConfig[i + 1].idxs[p]
              other == engine.sensors[priorityConfig[i + 1].line]
          IN  j < Len(other) /\ other[j + 1] # 0

\* C10: with the engine available, after a sensors fetch the cached ccline
\* array has, outside test mode, 0 at every overridden index and the engine's
\* value at every other index, and in test mode the engine's values; a reply
\* that carries a ccline array carries the cached one.
C10_PriorityOverride ==
    (req \in PrioMsgs /\ resp.kind = "reply") =>
        LET cc == sensorsDict["ccline"]
        IN  /\ cc.kind = "list"
            /\ Len(cc.items) = Len(engine.sensors["ccline"])
            /\ \A i \in 0..(Len(cc.items) - 1) :
                  cc.items[i + 1] = IF ~gTestMD /\ Overridden(i) THEN 0
                                    ELSE engine.sensors["ccline"][i + 1]
            /\ "ccline" \in DOMAIN resp.body => resp.body["ccline"] = cc

\* A fetch outside test mode has cleared index 8 for the second index its
\* rule lists, the first being false, and kept index 16, beyond the table.
C10_Witness ==
    /\ ~gTestMD
    /\ req \in PrioMsgs
    /\ resp.kind = "reply"
    /\ "ccline" \in DOMAIN resp.body
    /\ Len(engine.sensors["ccline"]) = 17
    /\ Len(engine.sensors["weline"]) = 16
    /\ engine.sensors["ccline"][9] = 1
    /\ engine.sensors["weline"][8] = 0
    /\ engine.sensors["weline"][10] = 1
    /\ resp.body["ccline"].items[9] = 0
    /\ resp.body["ccline"].items[17] = 1
    /\ resp.body["ccline"].items[1] = engine.sensors["ccline"][1]

\* --------------------------------------------------------------- dispatch
\* The (key, type) combinations msgHandler has a branch for, lines 237-274.
Recognized ==
    {<<"GET", t>> : t \in {"login", "sensors", "stations", "trainsPlc", "trainsRtu"}}
    \cup {<<"POST", t>> : t \in {"signals", "stations", "trainsPlc", "powerLink"}}

\* The key and type of a datagram: those of its triplet, the empty ones for
\* a datagram that has no triplet.
KeyTypeOf(m) ==
    LET p == parseIncomeMsg(m)
        one(x) == IF Len(x) = 1 THEN x[1] ELSE ""
    IN  IF p.raised THEN <<"", "">> ELSE <<one(p.key), one(p.type)>>

\* The handlers whose effects the state shows: a fetch by its table, a
\* setter by its calls to the engine, the power-link branch by its record of
\* the last value and the trains it stopped.
Invoked ==
    {<<"GET", t>> : t \in {u \in FetchTypes : TableOf(u) # EmptyTable}}
    \cup {<<"POST", "signals">> : c \in {d \in calls : d[1] = "setSingals"}}
    \cup {<<"POST", "stations">> : c \in {d \in calls : d[1] = "setStationSignal"}}
    \cup {<<"POST", "trainsPlc">> : c \in {d \in calls : d[1] = "setTainsPower"}}
    \cup (IF last_powerlink_railway # "None" \/ pc["disp"] # "idle"
             \/ \E l \in LineIDs : \E i \in 1..TrainsOnLine[l] : emgStop[l][i]
          THEN {<<"POST", "powerLink">>} ELSE {})

\* C11: once msgHandler has handled the datagram, the reply is REP;deny;{}
\* exactly when the datagram's (key, type) is not a recognized combination;
\* for a recognized one the reply's type is the request's type, and no
\* handler but the matching one has acted.
C11_DenyExactlyUnrecognized ==
    (resp.kind # "none" \/ pc["disp"] # "idle") =>
        /\ resp.kind # "none" =>
              /\ resp.kind = "reply"
              /\ (resp.type = "deny") <=> (KeyTypeOf(req) \notin Recognized)
              /\ resp.type = "deny" => resp.body = EmptyObj
              /\ KeyTypeOf(req) \in Recognized => resp.type = KeyTypeOf(req)[2]
        /\ Invoked \subseteq {KeyTypeOf(req)} \cap Recognized

\* ------------------------------------------------------------ set requests
\* The request objects of the set requests: some of three keys, each with a
\* value.
SetRequests ==
    UNION {[S -> {"0", "1"}] : S \in SUBSET {"weline", "nsline", "ccline"}}

SetMsgs ==
    {Wire("POST", "signals", ObjText(f)) : f \in SetRequests}
    \cup {Wire("POST", t, b) : t \in {"signals", "stations", "trainsPlc"},
                              b \in {<<"[]">>, <<"{">>, Obj1("weline", "1")}}

InitSet ==
    /\ InitProgram
    /\ InitWorkers
    /\ InitTrains
    /\ req = <<>>
    /\ iMapMgr = FALSE
    /\ gTestMD = FALSE
    /\ gJuncAvoid \in BOOLEAN
    /\ engine = EngineWorld(1)
    /\ engFault = "none"
    /\ broken = {}
    /\ now = 0

NextSet ==
    \/ \E m \in SetMsgs : msgHandler(m) /\ UNCHANGED <<histVars, workerVars>>
    \/ EngineUp /\ UNCHANGED <<histVars, workerVars>>

SpecSet == InitSet /\ [][NextSet]_vars

\* C12 as amended: for a POST/signals whose body is a JSON object, with the
\* engine available the reply reports success, and the engine's signal-setter
\* is called once for each key/value pair of the body when the
\* junction-avoidance flag is not active and not at all when it is; with the
\* engine unavailable the setter is not called and the reply reports failure.
C12_SignalsSetUnlessAvoiding ==
    [][\A f \in SetRequests :
          msgHandler(Wire("POST", "signals", ObjText(f))) =>
              /\ resp' = Reply("signals", ResultObj(IF iMapMgr THEN "success" ELSE "failed"))
              /\ calls' = IF iMapMgr /\ ~gJuncAvoid
                             THEN {<<"setSingals", k, TokVal(f[k])>> : k \in DOMAIN f}
                             ELSE {}
              /\ UNCHANGED <<tableVars, emgStop>>
      ]_vars

\* A two-pair body was handled with the flag active and the engine there.
C12_Witness ==
    /\ iMapMgr
    /\ gJuncAvoid
    /\ req = Wire("POST", "signals", ObjText([weline |-> "1", nsline |-> "0"]))
    /\ resp = Reply("signals", ResultObj("success"))
    /\ calls = {}

\* C12 as claimed: for a POST/signals with a well-formed body the reply
\* reports success, the setter being called once for each pair of the body
\* when the junction-avoidance flag is not active and never when it is.
C12_SignalsAlwaysSucceed ==
    [][\A f \in SetRequests :
          msgHandler(Wire("POST", "signals", ObjText(f))) =>
              /\ resp' = Reply("signals", ResultObj("success"))
              /\ calls' = IF gJuncAvoid THEN {}
                             ELSE {<<"setSingals", k, TokVal(f[k])>> : k \in DOMAIN f}
      ]_vars

\* ------------------------------------------------------------ metro totals
\* float(x), line 405 and line 409: a number, or an error.
Parseable(v) == v.kind = "num"

\* info.get('current', 0) or 0, line 405.
CurrentOf(info) == IF Truthy(info.current) THEN info.current ELSE JNum(0)

RECURSIVE SumNums(_, _)
SumNums(vs, i) == IF i > Len(vs) THEN 0 ELSE vs[i].num + SumNums(vs, i + 1)

\* The voltages list of lines 402-411: the voltages that are not None and
\* that float() accepts.
VoltagesOf(trains) ==
    LET all == [i \in 1..Len(trains) |-> trains[i].voltage]
        kept(v) == v # JNull /\ Parseable(v)
    IN  SelectSeq(all, kept)

\* A mean taken over all the trains of the line.
busVoltageOverTrains(voltages, trains) ==
    IF voltages = <<>> THEN [sum |-> 0, n |-> 1]
    ELSE [sum |-> SumNums(voltages, 1), n |-> Len(trains)]

\* bus_v, line 412: the mean sum / n, kept as the fraction; 0 for no voltage.
busVoltage(voltages, trains) ==
    IF voltages = <<>> THEN [sum |-> 0, n |-> 1]
    ELSE [sum |-> SumNums(voltages, 1), n |-> Len(voltages)]

\* One line's turn of the loop of lines 399-419: the record, or the error
\* float() raises on a current it cannot parse.
lineTotals(l) ==
    LET trains == engine.info[l]
        currents == [i \in 1..Len(trains) |-> CurrentOf(trains[i])]
    IN  [raised |-> \E i \in 1..Len(trains) : ~Parseable(currents[i]),
         payload |-> [ts_ms |-> now * 1000,
                      line_id |-> l,
                      bus_v |-> busVoltage(VoltagesOf(trains), trains),
                      total_i |-> IF \A i \in 1..Len(trains) : Parseable(currents[i])
                                  THEN SumNums(currents, 1) ELSE 0,
                      train_count |-> Len(trains)]]

\* _collectMetroTotalsPayloads, lines 395-420.
collectMetroTotalsPayloads ==
    IF ~iMapMgr THEN [raised |-> FALSE, payloads |-> <<>>]
    ELSE IF \E l \in LineIDs : lineTotals(l).raised
    THEN [raised |-> TRUE, payloads |-> <<>>]
    ELSE [raised |-> FALSE,
          payloads |-> [i \in 1..Len(LineOrder) |-> lineTotals(LineOrder[i]).payload]]

\* One turn of MetroTotalsSender.run, lines 434-442: the batch is sent
\* record by record; an error of the aggregation is swallowed with the batch.
senderRound ==
    /\ totalsSender.on
    /\ totalsSender.n < MaxRounds
    /\ LET c == collectMetroTotalsPayloads
       IN  totalsSender' = [totalsSender EXCEPT !.out = c.payloads, !.n = @ + 1]
    /\ UNCHANGED <<iMapMgr, cfgVars, engVars, emgStop, tableVars, stampVars, now,
                   last_powerlink_railway, watchVars, pc, fan, req, resp, calls,
                   histVars, terminate, totalsLogger>>

\* One turn of _logMetroTotalsLoop, lines 458-471: the loop is left once
\* terminate is set; nothing catches an error of the aggregation.
loggerRound ==
    /\ totalsLogger.pc = "run"
    /\ IF terminate
       THEN totalsLogger' = [totalsLogger EXCEPT !.pc = "exited"]
       ELSE /\ totalsLogger.n < MaxRounds
            /\ LET c == collectMetroTotalsPayloads
               IN  totalsLogger' = IF c.raised
                                   THEN [totalsLogger EXCEPT !.pc = "dead"]
                                   ELSE [totalsLogger EXCEPT !.out = c.payloads, !.n = @ + 1]
    /\ UNCHANGED <<iMapMgr, cfgVars, engVars, emgStop, tableVars, stampVars, now,
                   last_powerlink_railway, watchVars, pc, fan, req, resp, calls,
                   histVars, terminate, totalsSender>>

\* The readings a train may report for its current and its voltage: none, a
\* number, a text that is no number.
CurrentReadings == {JNull, JNum(2), JNum(3), JStr("abc")}

VoltageReadings == {JNull, JNum(10), JStr("abc")}

TrainInfo(c, v) == [fsensor |-> 0, speed |-> 0, voltage |-> v, current |-> c]

RECURSIVE TrainSeqs(_)
TrainSeqs(n) ==
    IF n = 0 THEN {<<>>}
    ELSE {Append(ts, TrainInfo(c, v)) :
             ts \in TrainSeqs(n - 1), c \in CurrentReadings, v \in VoltageReadings}

\* The engines of the totals: the trains of weline report anything, the
\* train of nsline a current or none, those of ccline a number each.
TotalsEngines ==
    {[EngineWorld(1) EXCEPT !.info =
         [weline |-> we,
          nsline |-> <<TrainInfo(c, JNum(10))>>,
          ccline |-> [i \in 1..TrainsOnLine["ccline"] |-> TrainInfo(JNum(i), JNum(10 * i))],
          mtline |-> <<>>]] :
        we \in TrainSeqs(TrainsOnLine["weline"]), c \in {JNull, JNum(2)}}

InitTotals ==
    /\ InitProgram
    /\ InitTrains
    /\ terminate = FALSE
    /\ totalsSender = [NoSender EXCEPT !.on = TRUE]
    /\ totalsLogger = [NoLogger EXCEPT !.pc = "run"]
    /\ req = <<>>
    /\ iMapMgr = FALSE
    /\ gTestMD = FALSE
    /\ gJuncAvoid = FALSE
    /\ engine \in TotalsEngines
    /\ engFault = "none"
    /\ broken = {}
    /\ now = 0

NextTotals ==
    \/ senderRound
    \/ loggerRound
    \/ EngineUp /\ UNCHANGED <<histVars, workerVars>>

SpecTotals == InitTotals /\ [][NextTotals]_vars

\* The sum of f over the indices of S.
RECURSIVE SumOver(_, _)
SumOver(S, f) ==
    IF S = {} THEN 0
    ELSE LET i == CHOOSE x \in S : TRUE IN f[i] + SumOver(S \ {i}, f)

\* The trains of line l that report a number as their voltage, and the
\* currents and voltages reported, a reading that is no number counting 0.
Reporting(l) == {i \in 1..Len(engine.info[l]) : engine.info[l][i].voltage.kind = "num"}

Currents(l) == [i \in 1..Len(engine.info[l]) |->
                   IF engine.info[l][i].current.kind = "num"
                   THEN engine.info[l][i].current.num ELSE 0]

Voltages(l) == [i \in 1..Len(engine.info[l]) |->
                   IF engine.info[l][i].voltage.kind = "num"
                   THEN engine.info[l][i].voltage.num ELSE 0]

\* Every train reports a number, or nothing, as its current.
CurrentsReadable ==
    \A l \in LineIDs : \A i \in 1..Len(engine.info[l]) :
        engine.info[l][i].current.kind \in {"num", "null"}

\* The batch holds one record per line, in the order of the four lines,
\* with the totals of the line.
TotalsOfAllLines(out) ==
    /\ Len(out) = 4
    /\ \A k \in 1..4 :
          LET l == LineOrder[k]
          IN  /\ out[k].line_id = l
              /\ out[k].total_i = SumOver(DOMAIN Currents(l), Currents(l))
              /\ out[k].train_count = TrainsOnLine[l]
              /\ IF Reporting(l) = {} THEN out[k].bus_v.sum = 0
                 ELSE out[k].bus_v.sum = SumOver(Reporting(l), Voltages(l))
                      /\ out[k].bus_v.n = Cardinality(Reporting(l))

C14_UnreadableCurrentCountsZero ==
    [][/\ (senderRound /\ iMapMgr) => TotalsOfAllLines(totalsSender'.out)
       /\ (loggerRound /\ iMapMgr /\ ~terminate) =>
              /\ totalsLogger'.pc = "run"
              /\ TotalsOfAllLines(totalsLogger'.out)
      ]_vars

\* ---------------------------------------------------------------- shutdown
\* stop(), lines 387-393: terminate is set, the server is told to stop and a
\* last datagram wakes its receive, so that the dispatcher leaves its loop.
stop ==
    /\ ~terminate
    /\ terminate' = TRUE
    /\ pc' = [pc EXCEPT !["disp"] = IF @ = "idle" THEN "stopped" ELSE @]
    /\ UNCHANGED <<iMapMgr, cfgVars, engVars, emgStop, tableVars, stampVars, now,
                   last_powerlink_railway, watchVars, fan, req, resp, calls,
                   histVars, totalsSender, totalsLogger>>

\* An engine whose trains all report numbers.
StopEngine ==
    [EngineWorld(1) EXCEPT !.info =
        [l \in LineIDs |-> [i \in 1..TrainsOnLine[l] |-> TrainInfo(JNum(i), JNum(10))]]]

StopMsgs == {Wire("GET", "login", EmptyObjText)}

\* The workers the configuration starts (lines 100-119); the watcher is
\* started.
InitStop ==
    /\ InitProgram
    /\ InitTrains
    /\ terminate = FALSE
    /\ totalsSender \in {NoSender, [NoSender EXCEPT !.on = TRUE]}
    /\ totalsLogger \in {NoLogger, [NoLogger EXCEPT !.pc = "run"]}
    /\ req = <<>>
    /\ iMapMgr = TRUE
    /\ gTestMD = FALSE
    /\ gJuncAvoid = FALSE
    /\ engine = StopEngine
    /\ engFault = "none"
    /\ broken = {}
    /\ now = 0

NextStop ==
    \/ stop
    \/ senderRound
    \/ loggerRound
    \/ \E m \in StopMsgs : msgHandler(m) /\ UNCHANGED <<histVars, workerVars>>
    \/ \E r \in CorePollReplies : watcherPoll(r) /\ UNCHANGED <<histVars, workerVars>>
    \/ FanStep("watch") /\ UNCHANGED <<histVars, workerVars>>
    \/ watcherEnd /\ UNCHANGED <<histVars, workerVars>>

SpecStop == InitStop /\ [][NextStop]_vars

\* C15: once stop has been called the dispatcher has left its receive, and
\* no started worker does any more work: the totals sender sends no batch,
\* the totals logger logs none, the watcher starts no fan-out.
C15_NoWorkAfterStop ==
    [][terminate =>
          /\ pc["disp"] = "stopped"
          /\ totalsSender'.n = totalsSender.n
          /\ totalsLogger'.n = totalsLogger.n
          /\ pc["watch"] = "idle" => pc'["watch"] = "idle"
      ]_vars

\* ---------------------------------------------------------------- liveness
\* An online test that still passes when the threshold is just reached.
OnlineUpToTimeout(crtTime, updateT) == crtTime - updateT <= gPlcTimeout

\* crtTime - updateT < gv.gPlcTimeout, lines 206-208 and 217.
Online(crtTime, updateT) == crtTime - updateT < gPlcTimeout

\* getLastPlcsConnectionState, lines 203-213: per channel the time of the
\* last fetch and whether the channel is online.
getLastPlcsConnectionState ==
    [sensors  |-> <<sensorPlcUpdateT, Online(now, sensorPlcUpdateT)>>,
     stations |-> <<stationPlcUpdateT, Online(now, stationPlcUpdateT)>>,
     trains   |-> <<trainPlcUpdateT, Online(now, trainPlcUpdateT)>>]

\* getLastRtusConnectionState, lines 215-220.
getLastRtusConnectionState ==
    [trains |-> <<trainRtuUpdateT, Online(now, trainRtuUpdateT)>>]

\* What the two reports say of channel t.
Reported(t) ==
    CASE t = "sensors" -> getLastPlcsConnectionState["sensors"]
      [] t = "stations" -> getLastPlcsConnectionState["stations"]
      [] t = "trainsPlc" -> getLastPlcsConnectionState["trains"]
      [] t = "trainsRtu" -> getLastRtusConnectionState["trains"]

\* C16: a channel is reported online exactly when the time since its last
\* fetch is below the timeout: it is offline when the time equals or exceeds
\* the timeout, and a channel never fetched is offline once the clock has
\* reached the timeout.
C16_OnlineBelowTimeout ==
    \A t \in FetchTypes :
        /\ Reported(t)[1] = StampOf(t)
        /\ now - StampOf(t) < gPlcTimeout => Reported(t)[2]
        /\ now - StampOf(t) = gPlcTimeout => ~Reported(t)[2]
        /\ now - StampOf(t) > gPlcTimeout => ~Reported(t)[2]
        /\ (StampOf(t) = 0 /\ now >= gPlcTimeout) => ~Reported(t)[2]

\* The sensors were fetched exactly a timeout ago and are offline, the
\* stations were fetched just now and are online, the train telemetry was
\* never fetched and is offline.
C16_Witness ==
    /\ sensorPlcUpdateT > 0
    /\ now - sensorPlcUpdateT = gPlcTimeout
    /\ ~getLastPlcsConnectionState["sensors"][2]
    /\ stationPlcUpdateT = now
    /\ getLastPlcsConnectionState["stations"][2]
    /\ trainRtuUpdateT = 0
    /\ ~getLastRtusConnectionState["trains"][2]

\* ------------------------------------------------------ the trip, one-shot
\* The readings that are the third false reading of their run, a true
\* reading coming right before the run.
ThirdOfRun(h) == {i \in TripPoints(h) : h[i - 3]}

\* C17: within one unbroken run of false readings the watcher applies the
\* emergency-stop at most once, on the third false reading, and not again on
\* the fourth or a later reading of the run: it has applied as many stops as
\* there are runs that reached their third reading.
C17_TripIsOneShot ==
    /\ pollStops = Cardinality(ThirdOfRun(polled))
    /\ polled = <<TRUE, FALSE, FALSE, FALSE, FALSE>> => pollStops = 1

\* ------------------------------------------------- the two paths together
\* Every train of every line holds the emergency-stop.
AllStopped == \A tr \in AllTrains : emgStop[tr[1]][tr[2]]

\* C18: the push path compares a pushed value with the value last applied to
\* the trains by either path; so when the trains all hold the emergency-stop
\* (false was applied last) and no fan-out is in progress, a push of
\* railway = true invokes the fan-out that releases them, whatever the
\* previous push was.
C18_PushComparesWithLastApplied ==
    [][\A m \in CorePushMsgs :
          (/\ msgHandler(m)
           /\ PushRailway(m) = "True"
           /\ iMapMgr
           /\ pc["watch"] = "idle"
           /\ AllStopped) => pc'["disp"] \in {"fanout", "returned"}
      ]_vars

\* C19: the dispatcher and the watcher are never inside
\* _applyRailwayPowerLink at the same time, so that whenever no fan-out is
\* in progress, with the engine available and no train failing, all trains
\* of all lines hold the same emergency-stop value.
C19_FanOutsExclusive ==
    /\ ~(pc["disp"] = "fanout" /\ pc["watch"] = "fanout")
    /\ (pc["disp"] = "idle" /\ pc["watch"] = "idle" /\ iMapMgr /\ broken = {}) =>
          \A a, b \in AllTrains : emgStop[a[1]][a[2]] = emgStop[b[1]][b[2]]

\* ------------------------------------------------------ whole snapshots
\* v is the complete fresh snapshot of line l on channel t.
FreshSnapshot(t, l, v) ==
    IF t = "sensors" /\ l = "ccline" /\ ~gTestMD THEN ClearedOnly(v, l)
    ELSE v = EngineView(t, l)

\* C20: after a fetch, one in which an engine agent raises part-way
\* included, each line's entry in the channel's table is the complete
\* previous snapshot or the complete fresh one, and a fetch that replies
\* {"result":"failed"} leaves the tables as they were.
C20_SnapshotsWhole ==
    [][\A m \in CacheMsgs :
          (msgHandler(m) /\ iMapMgr) =>
              /\ \A t \in FetchTypes : \A l \in LineIDs :
                    \/ TableOf(t)'[l] = TableOf(t)[l]
                    \/ FreshSnapshot(t, l, TableOf(t)'[l])
              /\ resp' = Reply(resp'.type, ResultObj("failed")) => UNCHANGED tableVars
      ]_vars

\* ------------------------------------------------- what the paths record
\* C21: the push path records a value as last applied only when the fan-out
\* for it reached the trains: when _applyRailwayPowerLink has returned at
\* once for want of the engine, the handler leaves the recorded last value as
\* it was, so that the same value pushed again is still applied.
C21_RecordsOnlyWhatReachedTrains ==
    [][(powerLinkEnd /\ fan["disp"].skipped) =>
          last_powerlink_railway' = last_powerlink_railway
      ]_vars

\* C22: the poll path never releases the emergency-stop.  The only fan-out
\* the watcher invokes is _applyRailwayPowerLink(False); a true reading sets
\* seen_true, resets false_count to 0 and leaves every train and the
\* watcher's position as they were; and, no push arriving, a train that is
\* stopped stays stopped.
C22_PollNeverReleases ==
    [][/\ \A r \in PollReplies :
             (watcherPoll(r) /\ WatcherReading(r) = "True") =>
                 /\ seen_true'
                 /\ false_count' = 0
                 /\ UNCHANGED <<emgStop, pc, fan>>
       /\ pc'["watch"] # "idle" => ~fan'["watch"].on
       /\ \A tr \in AllTrains : emgStop[tr[1]][tr[2]] => emgStop'[tr[1]][tr[2]]
      ]_vars

\* The watcher has tripped and stopped every train, and the true reading
\* polled after that has left them stopped.
C22_Witness ==
    /\ polled = <<TRUE, FALSE, FALSE, FALSE, TRUE>>
    /\ pollStops = 1
    /\ seen_true
    /\ false_count = 0
    /\ pc["watch"] = "idle"
    /\ AllStopped

\* ------------------------------------------------ liveness of the interlock
\* An iteration of PowerLinkWatcher.run on a false reading once false_count
\* has reached MaxPolls: the count, of which line 508 reads only whether it
\* is at least 3, is kept there, and the watcher trips as on every false
\* reading past the third.
watcherPollAtBound(r) ==
    /\ pc["watch"] = "idle"
    /\ seen_true
    /\ false_count = MaxPolls
    /\ WatcherReading(r) = "False"
    /\ IF Trips(false_count)
       THEN LET b == FanBegin(TripPower)
            IN  /\ pc' = [pc EXCEPT !["watch"] = b.pc]
                /\ fan' = [fan EXCEPT !["watch"] = b.fan]
       ELSE UNCHANGED <<pc, fan>>
    /\ UNCHANGED <<iMapMgr, cfgVars, engVars, emgStop, tableVars, stampVars, now,
                   last_powerlink_railway, watchVars, req, resp, calls>>

\* The watcher polls: any reply, at any count.
Polls == \E r \in CorePollReplies : watcherPoll(r) \/ watcherPollAtBound(r)

\* A true reading is polled; a POST/powerLink request arrives.
TruePolled == \E r \in CorePollReplies : watcherPoll(r) /\ WatcherReading(r) = "True"

PushArrives == \E m \in CorePushMsgs : msgHandler(m)

\* The engine is available and no train's setEmgStop fails.
InitLive ==
    /\ InitProgram
    /\ InitWorkers
    /\ InitTrains
    /\ req = <<>>
    /\ iMapMgr = TRUE
    /\ gTestMD = FALSE
    /\ gJuncAvoid = FALSE
    /\ engine = EngineWorld(1)
    /\ engFault = "none"
    /\ broken = {}
    /\ now = 0

NextLive ==
    \/ Polls /\ UNCHANGED <<histVars, workerVars>>
    \/ FanStep("watch") /\ UNCHANGED <<histVars, workerVars>>
    \/ watcherEnd /\ UNCHANGED <<histVars, workerVars>>
    \/ PushArrives /\ UNCHANGED <<histVars, workerVars>>
    \/ FanStep("disp") /\ UNCHANGED <<histVars, workerVars>>
    \/ powerLinkEnd /\ UNCHANGED <<histVars, workerVars>>

\* The replies of the power grid that read false.
FalseReplies == {r \in CorePollReplies : WatcherReading(r) = "False"}

\* What an iteration of the watcher on a false reading does once a true
\* reading has been seen (lines 506-509): the steps of Polls that count.
FalseCounted ==
    /\ FalseReplies # {}
    /\ pc["watch"] = "idle"
    /\ seen_true
    /\ false_count' = IF false_count < MaxPolls THEN false_count + 1 ELSE false_count
    /\ seen_true' = seen_true
    /\ IF Trips(false_count')
       THEN LET b == FanBegin(TripPower)
            IN  /\ pc' = [pc EXCEPT !["watch"] = b.pc]
                /\ fan' = [fan EXCEPT !["watch"] = b.fan]
       ELSE UNCHANGED <<pc, fan>>
    /\ UNCHANGED <<iMapMgr, cfgVars, engVars, emgStop, tableVars, stampVars, now,
                   last_powerlink_railway, req, resp, calls, histVars, workerVars>>

\* The watcher thread is scheduled fairly: it goes on polling (a second
\* after the other, line 514), the power grid answering, and goes on through
\* its fan-out.
SpecLive ==
    /\ InitLive
    /\ [][NextLive]_vars
    /\ WF_vars(FalseCounted)
    /\ WF_vars(FanStep("watch") /\ UNCHANGED <<histVars, workerVars>>)
    /\ WF_vars(watcherEnd /\ UNCHANGED <<histVars, workerVars>>)

\* C23: if a true reading has been polled at some point, and from some
\* point on no true reading is polled and no POST/powerLink request arrives,
\* then all trains of all lines are eventually emergency-stopped and remain
\* so.
C23_EventuallyAllStopped ==
    (<>seen_true /\ <>[][~TruePolled /\ ~PushArrives]_vars) => <>[]AllStopped

\* The watcher has stopped every train after a push of railway = true had
\* been applied, and polls on with its count at the bound.
C23_Witness ==
    /\ last_powerlink_railway = "True"
    /\ seen_true
    /\ false_count = MaxPolls
    /\ pc["watch"] = "idle"
    /\ pc["disp"] = "idle"
    /\ AllStopped
====
